---- MODULE Spec2Model ----
(***************************************************************************)
(* Book Collection API (src/lecture_5/book_api): the persisted table of    *)
(* books, the request schemas, the entity validators, the CRUD class and   *)
(* the endpoints that call it.                                             *)
(*                                                                         *)
(* Representation.  A string is a sequence of one-character strings.  A    *)
(* Python Optional value is a sequence of length 0 (None) or 1 (a value).  *)
(* A request body is a record of the three fields plus `set`, the names    *)
(* of the fields the body supplied (pydantic's model_fields_set); a field  *)
(* not supplied holds its default None.                                    *)
(***************************************************************************)
EXTENDS Integers, Sequences, FiniteSets, TLC

VARIABLES
    books,        \* the rows of table "books" (committed state of books.db)
    assigned,     \* history: the ids handed out by INSERT, in order
    currentYear,  \* datetime.now().year
    pending,      \* per caller: the Book added to its session, not yet committed
    last,         \* the request just served and its outcome, until delivered
    seen,         \* history: the last two responses of GET /books/
    stdout,       \* lecture_1: the strings passed to print, in order
    students,     \* lecture_3: the list of student dictionaries of main()
    pc            \* lecture_3: the input() call at which the analyzer waits

vars == <<books, assigned, currentYear, pending, last, seen, stdout, students, pc>>

-----------------------------------------------------------------------------
(* Bounds of the model *)

MaxCreates == 2      \* number of rows ever inserted
MaxBooks == 2        \* number of rows in the table at one time
StartYear == 2026    \* calendar year in which the modules were imported
MaxTicks == 1        \* number of new years the process lives through
NumCallers == 2      \* concurrent requests
MaxSkip == 3         \* largest skip passed to crud.get_books
MaxLimit == 3        \* largest limit passed to crud.get_books
MaxPage == 3         \* largest page number requested
MaxPageSize == 2     \* largest page size requested below the limit
MaxTotal == 30       \* largest total a page count is computed for
MaxOverlap == 1      \* updates that commit while another update is running
MaxStudents == 2     \* students in the list of the grade analyzer
MaxGrades == 2       \* grades recorded for one student

(* Program constants *)

MaxStrLen == 255
MinStrLen == 1
MinYear == 1000
YearSlack == 2

Callers == 1..NumCallers

-----------------------------------------------------------------------------
(* Values *)

None == << >>
Some(v) == <<v>>
IsNone(o) == o = << >>

Max(S) == CHOOSE x \in S : \A y \in S : y <= x

Rep(c, n) == [i \in 1..n |-> c]

\* the members of a sequence
Range(s) == {s[i] : i \in DOMAIN s}

(* U+001F (unit separator): whitespace for Python's str.strip(), not for   *)
(* the White_Space property that pydantic's str_strip_whitespace uses.     *)
US == "US"

\* the whitespace of str.strip() and of str_strip_whitespace, as far as the
\* inputs of the model use it
PyWhitespace == {" ", US}
CoreWhitespace == {" "}

\* s without its leading and trailing run of whitespace characters
StripWith(s, ws) ==
    LET lead == Cardinality({i \in 1..Len(s) : \A j \in 1..i : s[j] \in ws})
        trail == Cardinality({i \in 1..Len(s) : \A j \in i..Len(s) : s[j] \in ws})
    IN  IF lead = Len(s) THEN << >> ELSE SubSeq(s, lead + 1, Len(s) - trail)

\* a strip that removes spaces only
strip_SpacesOnly(s) == StripWith(s, CoreWhitespace)

\* str.strip() as called in models.py and in the schemas' field validators
strip(s) == StripWith(s, PyWhitespace)

\* model_config str_strip_whitespace = True
str_strip_whitespace(s) == StripWith(s, CoreWhitespace)

-----------------------------------------------------------------------------
(* models.py: the @validates hooks of Book.  Each returns [raised, val]:   *)
(* raised = a ValueError, val = the value the attribute is set to.         *)

\* validate_title returning title instead of title.strip()
validate_title_NoStrip(title) ==
    LET stripped == strip(title)
    IN  IF title = << >> \/ stripped = << >>
        THEN [raised |-> TRUE, val |-> << >>]
        ELSE IF Len(stripped) > MaxStrLen
        THEN [raised |-> TRUE, val |-> << >>]
        ELSE [raised |-> FALSE, val |-> title]

validate_title(title) ==
    LET stripped == strip(title)
    IN  IF title = << >> \/ stripped = << >>
        THEN [raised |-> TRUE, val |-> << >>]
        ELSE IF Len(stripped) > MaxStrLen
        THEN [raised |-> TRUE, val |-> << >>]
        ELSE [raised |-> FALSE, val |-> stripped]

validate_author(author) ==
    LET stripped == strip(author)
    IN  IF author = << >> \/ stripped = << >>
        THEN [raised |-> TRUE, val |-> << >>]
        ELSE IF Len(stripped) > MaxStrLen
        THEN [raised |-> TRUE, val |-> << >>]
        ELSE [raised |-> FALSE, val |-> stripped]

\* year is an Optional int; now is datetime.now().year at the call
validate_year(year, now) ==
    IF ~IsNone(year) /\ (year[1] < MinYear \/ year[1] > now + YearSlack)
    THEN [raised |-> TRUE, val |-> None]
    ELSE [raised |-> FALSE, val |-> year]

-----------------------------------------------------------------------------
(* schemas.py: request validation.  Each returns [ok, val].                *)

\* Field(min_length=1, max_length=255) on a str, after str_strip_whitespace
ConstrainedStr(v) ==
    LET s == str_strip_whitespace(v)
    IN  IF Len(s) < MinStrLen \/ Len(s) > MaxStrLen
        THEN [ok |-> FALSE, val |-> << >>]
        ELSE [ok |-> TRUE, val |-> s]

\* BookBase.title / BookBase.author: the constrained str, then the
\* field_validator (v.strip(), "cannot be empty")
BookBaseStr(v) ==
    LET c == ConstrainedStr(v)
    IN  IF ~c.ok THEN c
        ELSE LET stripped == strip(c.val)
             IN  IF stripped = << >> THEN [ok |-> FALSE, val |-> << >>]
                 ELSE [ok |-> TRUE, val |-> stripped]

\* BookUpdate.title / BookUpdate.author: Optional[str], no field_validator
BookUpdateStr(o) ==
    IF IsNone(o) THEN [ok |-> TRUE, val |-> None]
    ELSE LET c == ConstrainedStr(o[1])
         IN  [ok |-> c.ok, val |-> IF c.ok THEN Some(c.val) ELSE None]

\* year: Optional[int] = Field(None, ge=1000, le=datetime.now().year + 2);
\* the upper limit is computed once, when schemas.py is imported
YearField(o) ==
    IF IsNone(o) THEN [ok |-> TRUE, val |-> None]
    ELSE IF o[1] < MinYear \/ o[1] > StartYear + YearSlack
    THEN [ok |-> FALSE, val |-> None]
    ELSE [ok |-> TRUE, val |-> o]

\* BookCreate(**body): title and author are required
BookCreate(body) ==
    IF ~({"title", "author"} \subseteq body.set)
       \/ IsNone(body.title) \/ IsNone(body.author)
    THEN [ok |-> FALSE, title |-> << >>, author |-> << >>, year |-> None]
    ELSE LET t == BookBaseStr(body.title[1])
             a == BookBaseStr(body.author[1])
             y == YearField(body.year)
         IN  [ok |-> t.ok /\ a.ok /\ y.ok,
              title |-> t.val, author |-> a.val, year |-> y.val]

\* BookUpdate(**body): every field optional; `set` is model_fields_set
BookUpdate(body) ==
    LET t == BookUpdateStr(body.title)
        a == BookUpdateStr(body.author)
        y == YearField(body.year)
    IN  [ok |-> t.ok /\ a.ok /\ y.ok,
         title |-> t.val, author |-> a.val, year |-> y.val, set |-> body.set]

-----------------------------------------------------------------------------
(* The table.  A row is [id, title, author, year, seq, origin].  seq and    *)
(* origin are history columns, not columns of the table: seq is the row's  *)
(* position in insertion order, origin the body of the POST that created   *)
(* the row, kept until an update of the row commits.                       *)

Ids(db) == {r.id : r \in db}

\* BookResponse.model_validate(db_book): the four columns
BookResponse(r) ==
    [id |-> r.id, title |-> r.title, author |-> r.author, year |-> r.year]

\* id = Column(Integer, primary_key=True, autoincrement=True) on SQLite is
\* INTEGER PRIMARY KEY without the AUTOINCREMENT keyword: an INSERT takes
\* one more than the largest id present in the table
NextId_NoIncrement(db) == IF db = {} THEN 1 ELSE Max(Ids(db))

NextId(db) == IF db = {} THEN 1 ELSE Max(Ids(db)) + 1

RowOf(db, book_id) == CHOOSE r \in db : r.id = book_id

\* BookCRUD.get_book: the row with that id, as an Optional
get_book(db, book_id) ==
    IF book_id \in Ids(db)
    THEN Some(RowOf(db, book_id))
    ELSE None

\* models.Book(title=..., author=..., year=...): the constructor sets the
\* attributes in keyword order, running the @validates hooks
Book(book, now) ==
    LET t == validate_title(book.title)
        a == validate_author(book.author)
        y == validate_year(book.year, now)
    IN  [raised |-> t.raised \/ a.raised \/ y.raised,
         title |-> t.val, author |-> a.val, year |-> y.val]

\* Insert with year=book.year left out of the constructor call
Insert_NoYear(db, obj, n, origin) ==
    [id |-> NextId(db), title |-> obj.title, author |-> obj.author,
     year |-> None, seq |-> n, origin |-> origin]

\* db.add(db_book); db.commit(); db.refresh(db_book): the INSERT
Insert(db, obj, n, origin) ==
    [id |-> NextId(db), title |-> obj.title, author |-> obj.author,
     year |-> obj.year, seq |-> n, origin |-> origin]

\* BookCRUD.create_book.  n and origin feed the history columns.
create_book(db, book, now, n, origin) ==
    LET obj == Book(book, now)
    IN  IF obj.raised
        THEN [raised |-> TRUE, db |-> db, ret |-> None]
        ELSE LET row == Insert(db, obj, n, origin)
             IN  [raised |-> FALSE, db |-> db \cup {row}, ret |-> Some(row)]

\* setattr(db_book, field, value): the @validates hook of the field
Validate(field, value, now) ==
    CASE field = "title" -> validate_title(value[1])
      [] field = "author" -> validate_author(value[1])
      [] field = "year" -> validate_year(value, now)

\* SetField with update_data = book_update.dict() and year applied as it
\* comes: a year left out of the body is written as None
SetField_AllFields(s, field, book_update, now) ==
    IF s.raised THEN s
    ELSE IF IsNone(book_update[field]) /\ field # "year" THEN s
    ELSE LET v == Validate(field, book_update[field], now)
         IN  IF v.raised THEN [raised |-> TRUE, obj |-> s.obj]
             ELSE [raised |-> FALSE, obj |-> [s.obj EXCEPT ![field] = v.val]]

\* one round of `for field, value in update_data.items()`; s = [raised, obj]
SetField(s, field, book_update, now) ==
    IF s.raised \/ field \notin book_update.set THEN s
    ELSE IF IsNone(book_update[field]) THEN s
    ELSE LET v == Validate(field, book_update[field], now)
         IN  IF v.raised THEN [raised |-> TRUE, obj |-> s.obj]
             ELSE [raised |-> FALSE, obj |-> [s.obj EXCEPT ![field] = v.val]]

\* the loop of update_book over update_data, in field order
ApplyUpdate(db_book, book_update, now) ==
    LET s0 == [raised |-> FALSE, obj |-> db_book]
        s1 == SetField(s0, "title", book_update, now)
        s2 == SetField(s1, "author", book_update, now)
    IN  SetField(s2, "year", book_update, now)

\* CommitUpdate with the attributes flushed as they are set: what the loop
\* changed before it raised is written
CommitUpdate_Flushed(db, db_book, s) ==
    (db \ {db_book}) \cup {[s.obj EXCEPT !.origin = None]}

\* db.commit() of update_book: the UPDATE of the loaded row.  When the loop
\* raised, commit is not reached and the session is closed with its changes.
CommitUpdate(db, db_book, s) ==
    IF s.raised THEN db
    ELSE (db \ {db_book}) \cup {[s.obj EXCEPT !.origin = None]}

\* BookCRUD.update_book
update_book(db, book_id, book_update, now) ==
    LET found == get_book(db, book_id)
    IN  IF IsNone(found)
        THEN [raised |-> FALSE, db |-> db, ret |-> None]
        ELSE LET s == ApplyUpdate(found[1], book_update, now)
                 db2 == CommitUpdate(db, found[1], s)
             IN  [raised |-> s.raised, db |-> db2,
                  ret |-> IF s.raised THEN None ELSE get_book(db2, s.obj.id)]

\* delete_book without its db.commit(): the session is closed and the
\* DELETE is rolled back
delete_book_NoCommit(db, book_id) ==
    [db |-> db, ret |-> ~IsNone(get_book(db, book_id))]

\* BookCRUD.delete_book
delete_book(db, book_id) ==
    LET found == get_book(db, book_id)
    IN  IF IsNone(found)
        THEN [db |-> db, ret |-> FALSE]
        ELSE [db |-> db \ {found[1]}, ret |-> TRUE]

-----------------------------------------------------------------------------
(* main.py: the endpoints.  status is the HTTP status of the response.    *)

HTTP_200 == 200
HTTP_201 == 201
HTTP_204 == 204
HTTP_400 == 400
HTTP_404 == 404
HTTP_422 == 422
HTTP_500 == 500

\* BookResponse.model_validate raises a ValidationError (a ValueError) when a
\* row does not pass the BookBase fields
ResponseOk(r) ==
    /\ BookBaseStr(r.title).ok
    /\ BookBaseStr(r.author).ok
    /\ YearField(r.year).ok

NoBody == [title |-> None, author |-> None, year |-> None, set |-> {}]

\* no request is being served
Idle ==
    [op |-> "idle", id |-> 0, body |-> NoBody, status |-> 0, crud |-> "skip",
     ret |-> None, pre |-> {}, now |-> 0, began |-> 0]

\* the fields a 422 response to POST /books/ names: one error per field that
\* BookCreate refuses
BookCreateErrors(body) ==
    {f \in {"title", "author"} : f \notin body.set \/ IsNone(body[f])}
    \cup {f \in {"title", "author"} :
            f \in body.set /\ ~IsNone(body[f]) /\ ~BookBaseStr(body[f][1]).ok}
    \cup {f \in {"year"} : ~YearField(body.year).ok}

\* the fields a 422 response to PUT /books/{book_id} names
BookUpdateErrors(body) ==
    {f \in {"title", "author"} : ~BookUpdateStr(body[f]).ok}
    \cup {f \in {"year"} : ~YearField(body.year).ok}

\* the field the ValueError of a 400 response is about: the first attribute,
\* in the order they are set, whose @validates hook raises
RaisedField(op, body, now) ==
    LET v == IF op = "create" THEN BookCreate(body) ELSE BookUpdate(body)
        bad == {f \in {"title", "author", "year"} :
                  /\ op = "update" => (f \in body.set /\ ~IsNone(v[f]))
                  /\ CASE f = "title" ->
                            validate_title(IF op = "create" THEN v.title ELSE v.title[1]).raised
                       [] f = "author" ->
                            validate_author(IF op = "create" THEN v.author ELSE v.author[1]).raised
                       [] f = "year" -> validate_year(v.year, now).raised}
    IN  IF "title" \in bad THEN {"title"}
        ELSE IF "author" \in bad THEN {"author"}
        ELSE bad

v_ok(op, body) ==
    IF op = "create" THEN BookCreate(body).ok ELSE BookUpdate(body).ok

\* the fields the detail of the error response names, for a request op with
\* this body answered with this status in the year now
Detail(op, body, status, now) ==
    IF op \notin {"create", "update"} THEN {}
    ELSE IF status = HTTP_422
    THEN IF op = "create" THEN BookCreateErrors(body) ELSE BookUpdateErrors(body)
    ELSE IF status = HTTP_400 /\ v_ok(op, body)
    THEN RaisedField(op, body, now)
    ELSE {}

\* the outcome of a request: the HTTP status, what the BookCRUD method did
\* ("skip" when it was not called), the body of the response, and as
\* history the table before the call, the year of the call and the number of
\* inserts committed when the request arrived
OutcomeAt(op, id, body, status, crud, ret, pre, began) ==
    [op |-> op, id |-> id, body |-> body, status |-> status, crud |-> crud,
     ret |-> ret, pre |-> pre, now |-> currentYear, began |-> began]

Outcome(op, id, body, status, crud, ret, pre) ==
    OutcomeAt(op, id, body, status, crud, ret, pre, Len(assigned))

\* POST /books/, up to db.add(db_book): the request is validated and the
\* Book is constructed; nothing is written yet
BeginCreate(c, body) ==
    LET book == BookCreate(body)
        obj == Book(book, currentYear)
    IN  /\ last = Idle
        /\ IsNone(pending[c])
        /\ UNCHANGED <<books, assigned, currentYear, seen, stdout, students, pc>>
        /\ IF ~book.ok
           THEN /\ UNCHANGED pending
                /\ last' = Outcome("create", 0, body, HTTP_422, "skip", None, books)
           ELSE IF obj.raised
           THEN /\ UNCHANGED pending
                /\ last' = Outcome("create", 0, body, HTTP_400, "raise", None, books)
           ELSE /\ pending' = [pending EXCEPT ![c] =
                                 Some([kind |-> "create", obj |-> obj,
                                       body |-> body, began |-> Len(assigned)])]
                /\ UNCHANGED last

\* POST /books/, from db.commit() on: the INSERT and the response
CommitCreate(c) ==
    /\ last = Idle
    /\ ~IsNone(pending[c])
    /\ pending[c][1].kind = "create"
    /\ Len(assigned) < MaxCreates
    /\ Cardinality(books) < MaxBooks
    /\ LET p == pending[c][1]
           row == Insert(books, p.obj, Len(assigned) + 1, Some(p.body))
       IN  /\ books' = books \cup {row}
           /\ assigned' = Append(assigned, row.id)
           /\ last' = IF ResponseOk(row)
                      THEN OutcomeAt("create", 0, p.body, HTTP_201, "row",
                                     Some(BookResponse(row)), books, p.began)
                      ELSE OutcomeAt("create", 0, p.body, HTTP_400, "row",
                                     None, books, p.began)
    /\ pending' = [pending EXCEPT ![c] = None]
    /\ UNCHANGED <<currentYear, seen, stdout, students, pc>>

\* POST /books/ served without another request in between
CreateBook(body) ==
    LET book == BookCreate(body)
        r == create_book(books, book, currentYear, Len(assigned) + 1, Some(body))
    IN  /\ last = Idle
        /\ (book.ok /\ ~r.raised) =>
              (Len(assigned) < MaxCreates /\ Cardinality(books) < MaxBooks)
        /\ UNCHANGED <<currentYear, pending, seen, stdout, students, pc>>
        /\ IF ~book.ok
           THEN /\ UNCHANGED <<books, assigned>>
                /\ last' = Outcome("create", 0, body, HTTP_422, "skip", None, books)
           ELSE IF r.raised
           THEN /\ UNCHANGED <<books, assigned>>
                /\ last' = Outcome("create", 0, body, HTTP_400, "raise", None, books)
           ELSE /\ books' = r.db
                /\ assigned' = Append(assigned, r.ret[1].id)
                /\ last' = IF ResponseOk(r.ret[1])
                           THEN Outcome("create", 0, body, HTTP_201, "row",
                                        Some(BookResponse(r.ret[1])), books)
                           ELSE Outcome("create", 0, body, HTTP_400, "row", None, books)

\* GET /books/{book_id}
GetBook(book_id) ==
    LET found == get_book(books, book_id)
    IN  /\ last = Idle
        /\ UNCHANGED <<books, assigned, currentYear, pending, seen, stdout, students, pc>>
        /\ last' = IF IsNone(found)
                   THEN Outcome("get", book_id, NoBody, HTTP_404, "none", None, books)
                   ELSE IF ResponseOk(found[1])
                   THEN Outcome("get", book_id, NoBody, HTTP_200, "row",
                                Some(BookResponse(found[1])), books)
                   ELSE Outcome("get", book_id, NoBody, HTTP_500, "row", None, books)

\* PUT /books/{book_id}.  The HTTPException(404) is raised inside the try
\* block and is an Exception, so the last handler turns it into a 500.
UpdateBook(book_id, body) ==
    LET book_update == BookUpdate(body)
        r == update_book(books, book_id, book_update, currentYear)
    IN  /\ last = Idle
        /\ UNCHANGED <<assigned, currentYear, pending, seen, stdout, students, pc>>
        /\ IF ~book_update.ok
           THEN /\ UNCHANGED books
                /\ last' = Outcome("update", book_id, body, HTTP_422, "skip", None, books)
           ELSE IF r.raised
           THEN /\ books' = r.db
                /\ last' = Outcome("update", book_id, body, HTTP_400, "raise", None, books)
           ELSE IF IsNone(r.ret)
           THEN /\ books' = r.db
                /\ last' = Outcome("update", book_id, body, HTTP_500, "none", None, books)
           ELSE /\ books' = r.db
                /\ last' = IF ResponseOk(r.ret[1])
                           THEN Outcome("update", book_id, body, HTTP_200, "row",
                                        Some(BookResponse(r.ret[1])), books)
                           ELSE Outcome("update", book_id, body, HTTP_400, "row", None, books)

\* DELETE /books/{book_id}
DeleteBook(book_id) ==
    LET r == delete_book(books, book_id)
    IN  /\ last = Idle
        /\ UNCHANGED <<assigned, currentYear, pending, seen, stdout, students, pc>>
        /\ books' = r.db
        /\ last' = IF r.ret
                   THEN Outcome("delete", book_id, NoBody, HTTP_204, "true", None, books)
                   ELSE Outcome("delete", book_id, NoBody, HTTP_404, "false", None, books)

\* the response reaches the client, which may then send its next request
Deliver ==
    /\ last # Idle
    /\ last' = Idle
    /\ UNCHANGED <<books, assigned, currentYear, pending, seen, stdout, students, pc>>

\* the calendar year changes while the process runs
Tick ==
    /\ last = Idle
    /\ currentYear < StartYear + MaxTicks
    /\ currentYear' = currentYear + 1
    /\ UNCHANGED <<books, assigned, pending, last, seen, stdout, students, pc>>

-----------------------------------------------------------------------------
(* crud.py and main.py: the list of books.                                 *)

Min(a, b) == IF a < b THEN a ELSE b

\* ORDER BY id DESC
OrderById_Desc(db) ==
    [i \in 1..Cardinality(db) |->
        CHOOSE r \in db : Cardinality({q \in db : q.id > r.id}) = i - 1]

\* ORDER BY id: the rows of db as a sequence, ids ascending
OrderById(db) ==
    [i \in 1..Cardinality(db) |->
        CHOOSE r \in db : Cardinality({q \in db : q.id < r.id}) = i - 1]

\* OFFSET skip LIMIT limit on the rows s, for skip >= 0 and limit >= 0
Window(s, skip, limit) ==
    LET n == Min(limit, Len(s) - skip)
    IN  [i \in 1..(IF n < 0 THEN 0 ELSE n) |-> s[skip + i]]

\* crud.get_books: the count of all rows, then one window of them
get_books(db, skip, limit) ==
    [books |-> Window(OrderById(db), skip, limit), total |-> Cardinality(db)]

\* Query(..., le=100) of page_size
PageSizeLimit == 100

\* total_pages rounded down and one added
ListTotalPages_Floor(total, page_size) == total \div page_size + 1

\* total_pages as GET /books/ computes it
ListTotalPages(total, page_size) == (total + page_size - 1) \div page_size

\* total_pages as GET /books/search/ computes it
SearchTotalPages(total, page_size) ==
    IF total > 0 THEN (total + page_size - 1) \div page_size ELSE 0

\* schemas.BooksResponse built from the rows of one page
BooksResponse(rows, total, page, page_size, total_pages) ==
    [books |-> [i \in 1..Len(rows) |-> BookResponse(rows[i])], total |-> total,
     page |-> page, page_size |-> page_size, total_pages |-> total_pages]

\* the Query(...) constraints of page and page_size
PageOk(page, page_size) ==
    page >= 1 /\ page_size >= 1 /\ page_size <= PageSizeLimit

\* crud.get_books called with skip and limit
GetBooks(skip, limit) ==
    /\ last = Idle
    /\ last' = Outcome("get_books", 0, [skip |-> skip, limit |-> limit], 0, "rows",
                       Some(get_books(books, skip, limit)), books)
    /\ UNCHANGED <<books, assigned, currentYear, pending, seen, stdout, students, pc>>

\* the total_pages computations of GET /books/ and of GET /books/search/
\* applied to a total and a page size
TotalPages(total, page_size) ==
    /\ last = Idle
    /\ last' = Outcome("total_pages", 0, [total |-> total, page_size |-> page_size],
                       0, "skip",
                       Some([list |-> ListTotalPages(total, page_size),
                             search |-> SearchTotalPages(total, page_size)]),
                       books)
    /\ UNCHANGED <<books, assigned, currentYear, pending, seen, stdout, students, pc>>

\* history of GET /books/: the request, the table and the response ret,
\* and in prev the response of the request before when that had the same
\* page and page_size and read the same table
Seen(params, ret) ==
    Some([body |-> params, pre |-> books, ret |-> ret,
          prev |-> IF ~IsNone(seen) /\ seen[1].body = params /\ seen[1].pre = books
                   THEN Some(seen[1].ret)
                   ELSE None])

\* GET /books/ whose SELECT has no ORDER BY: the rows come in any order
ListBooks_Unordered(page, page_size) ==
    \E rows \in {s \in [1..Cardinality(books) -> books] : Range(s) = books} :
        LET params == [page |-> page, page_size |-> page_size]
            shown == Window(rows, (page - 1) * page_size, page_size)
            resp == BooksResponse(shown, Cardinality(books), page, page_size,
                                  ListTotalPages(Cardinality(books), page_size))
        IN  /\ last = Idle
            /\ UNCHANGED <<books, assigned, currentYear, pending, stdout, students, pc>>
            /\ IF ~PageOk(page, page_size)
               THEN /\ last' = Outcome("list", 0, params, HTTP_422, "skip", None, books)
                    /\ UNCHANGED seen
               ELSE /\ last' = Outcome("list", 0, params, HTTP_200, "rows",
                                       Some(resp), books)
                    /\ seen' = Seen(params, last'.ret)

\* GET /books/?page=&page_size=
ListBooks(page, page_size) ==
    LET params == [page |-> page, page_size |-> page_size]
        r == get_books(books, (page - 1) * page_size, page_size)
        resp == BooksResponse(r.books, r.total, page, page_size,
                              ListTotalPages(r.total, page_size))
    IN  /\ last = Idle
        /\ UNCHANGED <<books, assigned, currentYear, pending, stdout, students, pc>>
        /\ IF ~PageOk(page, page_size)
           THEN /\ last' = Outcome("list", 0, params, HTTP_422, "skip", None, books)
                /\ UNCHANGED seen
           ELSE /\ last' = IF \A i \in 1..Len(r.books) : ResponseOk(r.books[i])
                           THEN Outcome("list", 0, params, HTTP_200, "rows",
                                        Some(resp), books)
                           ELSE Outcome("list", 0, params, HTTP_500, "rows", None, books)
                /\ seen' = Seen(params, last'.ret)

\* GET /books/ in a session of its own, up to the first statement of
\* crud.get_books: the page is validated and SELECT count(id) has run.  The
\* session has written nothing, so the driver has begun no transaction and
\* the next statement reads whatever is committed by then.
BeginList(c, page, page_size) ==
    /\ last = Idle
    /\ IsNone(pending[c])
    /\ PageOk(page, page_size)
    /\ pending' = [pending EXCEPT ![c] =
                     Some([kind |-> "list",
                           body |-> [page |-> page, page_size |-> page_size],
                           total |-> Cardinality(books), pre |-> books,
                           began |-> Len(assigned)])]
    /\ UNCHANGED <<books, assigned, currentYear, last, seen, stdout, students, pc>>

\* GET /books/, from the SELECT ... ORDER BY id OFFSET LIMIT on: the rows
\* are read from the table as it is now and the response is built
FinishList(c) ==
    /\ last = Idle
    /\ ~IsNone(pending[c])
    /\ pending[c][1].kind = "list"
    /\ LET p == pending[c][1]
           page == p.body.page
           page_size == p.body.page_size
           rows == Window(OrderById(books), (page - 1) * page_size, page_size)
           resp == BooksResponse(rows, p.total, page, page_size,
                                 ListTotalPages(p.total, page_size))
       IN  last' = IF \A i \in 1..Len(rows) : ResponseOk(rows[i])
                   THEN OutcomeAt("list", 0, p.body, HTTP_200, "rows",
                                  Some(resp), p.pre, p.began)
                   ELSE OutcomeAt("list", 0, p.body, HTTP_500, "rows",
                                  None, p.pre, p.began)
    /\ pending' = [pending EXCEPT ![c] = None]
    /\ UNCHANGED <<books, assigned, currentYear, seen, stdout, students, pc>>

-----------------------------------------------------------------------------
(* crud.py and main.py: the search.                                        *)

\* lower() of SQLite on one character, as far as the inputs of the model
\* use it
LowerChar(c) ==
    CASE c = "A" -> "a"
      [] c = "B" -> "b"
      [] c = "X" -> "x"
      [] OTHER -> c

lower(s) == [i \in 1..Len(s) |-> LowerChar(s[i])]

\* s LIKE p: % stands for any run of characters and _ for any one
\* character; m[i, j] says that p after its first i characters matches s
\* after its first j characters
Like(p, s) ==
    LET m[i \in 0..Len(p), j \in 0..Len(s)] ==
            IF i = Len(p) THEN j = Len(s)
            ELSE IF p[i + 1] = "%"
            THEN m[i + 1, j] \/ (j < Len(s) /\ m[i, j + 1])
            ELSE IF j = Len(s) THEN FALSE
            ELSE (p[i + 1] = "_" \/ p[i + 1] = s[j + 1]) /\ m[i + 1, j + 1]
    IN  m[0, 0]

\* column.ilike(pattern): lower(column) LIKE lower(pattern)
ilike(col, pattern) == Like(lower(pattern), lower(col))

\* the truth value Python gives an Optional[str] in an if: None and "" are
\* false
TruthyStr(o) == ~IsNone(o) /\ o[1] # << >>

\* the truth value Python gives an Optional[int] in an if: None and 0 are
\* false
TruthyInt(o) == ~IsNone(o) /\ o[1] # 0

Filter(col, op, arg, arg2) == [col |-> col, op |-> op, arg |-> arg, arg2 |-> arg2]

\* if search_query.title: Book.title.ilike(f"%{title}%")
TitleFilter(search_query) ==
    IF TruthyStr(search_query.title)
    THEN {Filter("title", "ilike", <<"%">> \o search_query.title[1] \o <<"%">>, 0)}
    ELSE {}

\* if search_query.author: Book.author.ilike(f"%{author}%")
AuthorFilter(search_query) ==
    IF TruthyStr(search_query.author)
    THEN {Filter("author", "ilike", <<"%">> \o search_query.author[1] \o <<"%">>, 0)}
    ELSE {}

\* if search_query.year: Book.year == year
YearFilter(search_query) ==
    IF TruthyInt(search_query.year)
    THEN {Filter("year", "==", search_query.year[1], 0)}
    ELSE {}

\* the if / elif / elif on year_from and year_to
RangeFilter(search_query) ==
    IF TruthyInt(search_query.year_from) /\ TruthyInt(search_query.year_to)
    THEN {Filter("year", "between", search_query.year_from[1], search_query.year_to[1])}
    ELSE IF TruthyInt(search_query.year_from)
    THEN {Filter("year", ">=", search_query.year_from[1], 0)}
    ELSE IF TruthyInt(search_query.year_to)
    THEN {Filter("year", "<=", search_query.year_to[1], 0)}
    ELSE {}

\* the filters search_books appends for a SearchQuery
filters(search_query) ==
    TitleFilter(search_query) \cup AuthorFilter(search_query)
    \cup YearFilter(search_query) \cup RangeFilter(search_query)

\* the row r satisfies the filter f; a comparison with a NULL year is not
\* true
Holds(f, r) ==
    CASE f.op = "ilike" -> ilike(r[f.col], f.arg)
      [] f.op = "==" -> ~IsNone(r.year) /\ r.year[1] = f.arg
      [] f.op = ">=" -> ~IsNone(r.year) /\ r.year[1] >= f.arg
      [] f.op = "<=" -> ~IsNone(r.year) /\ r.year[1] <= f.arg
      [] f.op = "between" ->
            ~IsNone(r.year) /\ r.year[1] >= f.arg /\ r.year[1] <= f.arg2

\* and_(*filters)
and_(F, r) == \A f \in F : Holds(f, r)

\* if filters: query.filter(and_(*filters))
Filtered(db, F) == IF F = {} THEN db ELSE {r \in db : and_(F, r)}

\* the window of a search whose rows were counted after the LIMIT
search_books_CountPage(db, search_query) ==
    LET rows == Window(OrderById(Filtered(db, filters(search_query))),
                       (search_query.page - 1) * search_query.page_size,
                       search_query.page_size)
    IN  [books |-> rows, total |-> Len(rows)]

\* crud.search_books: the count of the filtered rows and one window of them
search_books(db, search_query) ==
    LET query == Filtered(db, filters(search_query))
    IN  [books |-> Window(OrderById(query),
                          (search_query.page - 1) * search_query.page_size,
                          search_query.page_size),
         total |-> Cardinality(query)]

\* the Query(...) constraints of GET /books/search/ and the Field(...)
\* constraints of SearchQuery
SearchQueryOk(q) ==
    /\ IsNone(q.year) \/ q.year[1] >= MinYear
    /\ IsNone(q.year_from) \/ q.year_from[1] >= MinYear
    /\ PageOk(q.page, q.page_size)

\* GET /books/search/
SearchBooks(q) ==
    LET r == search_books(books, q)
        resp == BooksResponse(r.books, r.total, q.page, q.page_size,
                              SearchTotalPages(r.total, q.page_size))
    IN  /\ last = Idle
        /\ UNCHANGED <<books, assigned, currentYear, pending, seen, stdout, students, pc>>
        /\ last' = IF ~SearchQueryOk(q)
                   THEN Outcome("search", 0, q, HTTP_422, "skip", None, books)
                   ELSE IF \A i \in 1..Len(r.books) : ResponseOk(r.books[i])
                   THEN Outcome("search", 0, q, HTTP_200, "rows", Some(resp), books)
                   ELSE Outcome("search", 0, q, HTTP_500, "rows", None, books)

-----------------------------------------------------------------------------
(* lecture_1/my_project/main.py: the Hello World printer.  A string is the *)
(* sequence of its pieces, a colour code or a text; "" has no piece.       *)

Fore_RED == "Fore.RED"
Fore_GREEN == "Fore.GREEN"
Fore_BLUE == "Fore.BLUE"
Fore_MAGENTA == "Fore.MAGENTA"
Back_YELLOW == "Back.YELLOW"
Back_CYAN == "Back.CYAN"
Style_BRIGHT == "Style.BRIGHT"

\* the pieces of a Python string given as one piece
Str(s) == IF s = "" THEN << >> ELSE <<s>>

ColorConfig(foreground, background, style) ==
    [foreground |-> foreground, background |-> background, style |-> style]

Message(text, config) == [text |-> text, config |-> config]

\* HelloWorldPrinter._setup_messages
setup_messages ==
    <<Message("Hello World!", ColorConfig(Fore_RED, Some(Back_YELLOW), None)),
      Message("Hello World in Green!", ColorConfig(Fore_GREEN, None, None)),
      Message("Hello World in Bright Blue!",
              ColorConfig(Fore_BLUE, None, Some(Style_BRIGHT))),
      Message("Hello World with Magenta text and Cyan background!",
              ColorConfig(Fore_MAGENTA, Some(Back_CYAN), None))>>

\* the codes joined foreground first
format_colored_text_ForegroundFirst(text, config) ==
    Str(config.foreground)
    \o (IF ~IsNone(config.background) THEN Str(config.background[1]) ELSE << >>)
    \o (IF ~IsNone(config.style) THEN Str(config.style[1]) ELSE << >>)
    \o Str(text)

\* HelloWorldPrinter._format_colored_text
format_colored_text(text, config) ==
    LET style == IF ~IsNone(config.style) /\ config.style[1] # ""
                 THEN <<config.style[1]>> ELSE << >>
        background == IF ~IsNone(config.background) /\ config.background[1] # ""
                      THEN <<config.background[1]>> ELSE << >>
        color_parts == style \o background \o Str(config.foreground)
    IN  color_parts \o Str(text)

\* one turn of the loop of print_all_messages: the next message is
\* formatted and printed
PrintMessage ==
    /\ Len(stdout) < Len(setup_messages)
    /\ LET message == setup_messages[Len(stdout) + 1]
       IN  stdout' = Append(stdout, format_colored_text(message.text, message.config))
    /\ UNCHANGED <<books, assigned, currentYear, pending, last, seen, students, pc>>

\* _format_colored_text called with a text and a ColorConfig
FormatText(text, config) ==
    /\ last = Idle
    /\ last' = Outcome("format", 0, Message(text, config), 0, "skip",
                       Some(format_colored_text(text, config)), books)
    /\ UNCHANGED <<books, assigned, currentYear, pending, seen, stdout, students, pc>>

-----------------------------------------------------------------------------
(* A client that reads the list, or one search, page after page.           *)

\* skip as page times page_size
PageSkip_FromPage(page, page_size) == page * page_size

\* skip = (page - 1) * page_size
PageSkip(page, page_size) == (page - 1) * page_size

\* the body of the 200 response of GET /books/ to page and page_size
ListPage(db, page, page_size) ==
    LET r == get_books(db, PageSkip(page, page_size), page_size)
    IN  BooksResponse(r.books, r.total, page, page_size,
                      ListTotalPages(r.total, page_size))

\* the body of the 200 response of GET /books/search/ to q
SearchPage(db, q) ==
    LET r == search_books(db, q)
    IN  BooksResponse(r.books, r.total, q.page, q.page_size,
                      SearchTotalPages(r.total, q.page_size))

\* the next page that a client asks for, having the responses pages: page
\* 1, then one page after the other up to the one after total_pages
MorePages(pages) ==
    IF pages = << >> THEN TRUE ELSE Len(pages) <= pages[1].total_pages

\* GET /books/ for page 1 and then, with nothing written in between, for
\* the page after the last one read; last.ret holds the responses so far
ListNextPage(page_size) ==
    LET params == [page_size |-> page_size]
        pages == IF last = Idle THEN << >> ELSE last.ret[1]
    IN  /\ last = Idle \/ (last.op = "list_pages" /\ last.body = params)
        /\ MorePages(pages)
        /\ last' = Outcome("list_pages", 0, params, HTTP_200, "rows",
                           Some(Append(pages, ListPage(books, Len(pages) + 1,
                                                       page_size))),
                           books)
        /\ UNCHANGED <<books, assigned, currentYear, pending, seen, stdout, students, pc>>

\* GET /books/search/ with the criteria and page_size of q, which the
\* Query constraints accept, for page 1 and then, with nothing written in
\* between, for the page after the last one read
SearchNextPage(q) ==
    LET pages == IF last = Idle THEN << >> ELSE last.ret[1]
    IN  /\ last = Idle \/ (last.op = "search_pages" /\ last.body = q)
        /\ MorePages(pages)
        /\ last' = Outcome("search_pages", 0, q, HTTP_200, "rows",
                           Some(Append(pages,
                                       SearchPage(books,
                                                  [q EXCEPT !.page = Len(pages) + 1]))),
                           books)
        /\ UNCHANGED <<books, assigned, currentYear, pending, seen, stdout, students, pc>>

-----------------------------------------------------------------------------
(* PUT /books/{book_id} from callers with sessions of their own.           *)

\* the columns of the UPDATE that the flush emits for a loaded row and the
\* object the loop made of it: the attributes whose value differs from the
\* loaded one.  An attribute set to the value it was loaded with has no net
\* change and is left out.

\* PUT /books/{book_id}, up to db.commit(): the body is validated, the row
\* is loaded into the caller's session and the loop sets its attributes
BeginUpdate(c, book_id, body) ==
    LET book_update == BookUpdate(body)
        found == get_book(books, book_id)
        s == ApplyUpdate(found[1], book_update, currentYear)
    IN  /\ last = Idle
        /\ IsNone(pending[c])
        /\ UNCHANGED <<books, assigned, currentYear, seen, stdout, students, pc>>
        /\ IF ~book_update.ok
           THEN /\ UNCHANGED pending
                /\ last' = Outcome("update", book_id, body, HTTP_422, "skip", None, books)
           ELSE IF IsNone(found)
           THEN /\ UNCHANGED pending
                /\ last' = Outcome("update", book_id, body, HTTP_500, "none", None, books)
           ELSE IF s.raised
           THEN /\ UNCHANGED pending
                /\ last' = Outcome("update", book_id, body, HTTP_400, "raise", None, books)
           ELSE /\ pending' = [pending EXCEPT ![c] =
                                 Some([kind |-> "update", id |-> book_id,
                                       body |-> body, loaded |-> found[1],
                                       obj |-> s.obj, during |-> << >>,
                                       began |-> Len(assigned)])]
                /\ UNCHANGED last

\* PUT /books/{book_id}, from db.commit() on: the UPDATE of the dirty
\* columns WHERE id = book_id, the refresh and the response.  When the row
\* is gone the UPDATE matches nothing (or the refresh finds nothing) and the
\* exception becomes a 500.  The outcome keeps, as history, the row as this
\* caller loaded it and the updates of the same row committed since.
FinishUpdate(c) ==
    /\ last = Idle
    /\ ~IsNone(pending[c])
    /\ pending[c][1].kind = "update"
    /\ \A d \in Callers \ {c} :
          (~IsNone(pending[d]) /\ pending[d][1].kind = "update")
              => Len(pending[d][1].during) < MaxOverlap
    /\ UNCHANGED <<assigned, currentYear, seen, stdout, students, pc>>
    /\ LET p == pending[c][1]
           cur == get_book(books, p.id)
           dirty == {f \in {"title", "author", "year"} : p.obj[f] # p.loaded[f]}
           row == [f \in DOMAIN p.loaded |->
                      IF f \in dirty THEN p.obj[f]
                      ELSE IF f = "origin" THEN None
                      ELSE cur[1][f]]
           history == [loaded |-> p.loaded, during |-> p.during]
           mine == [body |-> p.body, loaded |-> p.loaded,
                    alone |-> p.during = << >>]
       IN  IF IsNone(cur)
           THEN /\ UNCHANGED books
                /\ pending' = [pending EXCEPT ![c] = None]
                /\ last' = OutcomeAt("update", p.id, p.body, HTTP_500, "raise",
                                     None, books, p.began) @@ history
           ELSE /\ books' = (books \ {cur[1]}) \cup {row}
                /\ pending' =
                     [d \in Callers |->
                        IF d = c THEN None
                        ELSE IF ~IsNone(pending[d])
                                /\ pending[d][1].kind = "update"
                                /\ pending[d][1].id = p.id
                        THEN Some([pending[d][1] EXCEPT
                                     !.during = Append(@, mine)])
                        ELSE pending[d]]
                /\ last' = OutcomeAt("update", p.id, p.body,
                                     IF ResponseOk(row) THEN HTTP_200 ELSE HTTP_400,
                                     "row",
                                     IF ResponseOk(row) THEN Some(BookResponse(row))
                                     ELSE None,
                                     books, p.began) @@ history

-----------------------------------------------------------------------------
(* lecture_3/student_grade_analyzer.py.  students is the list of main(); a *)
(* student is [name, grades].  pc is the input() call the program waits    *)
(* at, and for the grade prompt the index of the student found.  last      *)
(* holds the line just read, where it was read and the list before it.     *)

MAX_GRADE == 100
MIN_GRADE == 0
EXIT_COMMAND == <<"d", "o", "n", "e">>

AtMenu == [at |-> "menu", student |-> 0]

\* str.lower(), as far as the inputs of the model use it
str_lower(s) ==
    LET UpperCase == <<"A", "B", "D", "E", "N", "O">>
        LowerCase == <<"a", "b", "d", "e", "n", "o">>
    IN  [i \in 1..Len(s) |->
            IF \E k \in DOMAIN UpperCase : UpperCase[k] = s[i]
            THEN LowerCase[CHOOSE k \in DOMAIN UpperCase : UpperCase[k] = s[i]]
            ELSE s[i]]

\* int(s) for a stripped string: an optional sign and decimal digits;
\* anything else raises ValueError
int(s) ==
    LET Digits == <<"0", "1", "2", "3", "4", "5", "6", "7", "8", "9">>
        DigitValue(c) == (CHOOSE k \in DOMAIN Digits : Digits[k] = c) - 1
        signed == s # << >> /\ s[1] \in {"+", "-"}
        digits == IF signed THEN Tail(s) ELSE s
        value[i \in 0..Len(digits)] ==
            IF i = 0 THEN 0 ELSE value[i - 1] * 10 + DigitValue(digits[i])
    IN  IF digits = << >> \/ \E i \in DOMAIN digits : digits[i] \notin Range(Digits)
        THEN [raised |-> TRUE, val |-> 0]
        ELSE [raised |-> FALSE,
              val |-> IF signed /\ s[1] = "-" THEN 0 - value[Len(digits)]
                      ELSE value[Len(digits)]]

\* the students whose name is the given one, compared as written
SameName_AsWritten(list, name) ==
    {i \in DOMAIN list : list[i].name = name}

\* the students whose name is the given one, letter case ignored:
\* student["name"].lower() == name.lower()
SameName(list, name) ==
    {i \in DOMAIN list : str_lower(list[i].name) = str_lower(name)}

\* the line read, the prompt it answered, what the program did with it and
\* the list before
Line(op, input, reply, pre) ==
    [op |-> op, input |-> input, reply |-> reply, pre |-> pre]

\* main: a menu choice is read
EnterChoice(input) ==
    LET choice == strip(input)
    IN  /\ pc.at = "menu"
        /\ UNCHANGED <<books, assigned, currentYear, pending, seen, stdout, students>>
        /\ CASE choice = <<"1">> ->
                  /\ pc' = [at |-> "add_new_student", student |-> 0]
                  /\ last' = Line("choice", input, "ok", students)
             [] choice = <<"2">> ->
                  /\ pc' = IF students = << >> THEN AtMenu
                           ELSE [at |-> "add_grades_for_student", student |-> 0]
                  /\ last' = Line("choice", input,
                                  IF students = << >> THEN "no students" ELSE "ok",
                                  students)
             [] choice \in {<<"3">>, <<"4">>} ->
                  /\ pc' = AtMenu
                  /\ last' = Line("choice", input, "report", students)
             [] choice = <<"5">> ->
                  /\ pc' = [at |-> "exited", student |-> 0]
                  /\ last' = Line("choice", input, "exit", students)
             [] OTHER ->
                  /\ pc' = AtMenu
                  /\ last' = Line("choice", input, "invalid choice", students)

\* add_new_student: the name is read
EnterNewName(input) ==
    LET name == strip(input)
        refused == name = << >> \/ SameName(students, name) # {}
    IN  /\ pc.at = "add_new_student"
        /\ refused \/ Len(students) < MaxStudents
        /\ pc' = AtMenu
        /\ UNCHANGED <<books, assigned, currentYear, pending, seen, stdout>>
        /\ IF name = << >>
           THEN /\ UNCHANGED students
                /\ last' = Line("name", input, "empty", students)
           ELSE IF SameName(students, name) # {}
           THEN /\ UNCHANGED students
                /\ last' = Line("name", input, "exists", students)
           ELSE /\ students' = Append(students, [name |-> name, grades |-> << >>])
                /\ last' = Line("name", input, "added", students)

\* add_grades_for_student: the name is read and the first student of that
\* name is looked up
EnterStudentName(input) ==
    LET name == strip(input)
        found == SameName(students, name)
    IN  /\ pc.at = "add_grades_for_student"
        /\ UNCHANGED <<books, assigned, currentYear, pending, seen, stdout, students>>
        /\ IF found = {}
           THEN /\ pc' = AtMenu
                /\ last' = Line("student", input, "not found", students)
           ELSE /\ pc' = [at |-> "grade",
                             student |-> CHOOSE i \in found : \A j \in found : i <= j]
                /\ last' = Line("student", input, "found", students)

\* add_grades_for_student: one turn of the while loop, a grade or 'done' is
\* read
EnterGrade(input) ==
    LET grade_input == str_lower(strip(input))
        grade == int(grade_input)
        valid == /\ grade_input # EXIT_COMMAND
                 /\ ~grade.raised
                 /\ MIN_GRADE <= grade.val
                 /\ grade.val <= MAX_GRADE
    IN  /\ pc.at = "grade"
        /\ valid => Len(students[pc.student].grades) < MaxGrades
        /\ UNCHANGED <<books, assigned, currentYear, pending, seen, stdout>>
        /\ IF grade_input = EXIT_COMMAND
           THEN /\ pc' = AtMenu
                /\ UNCHANGED students
                /\ last' = Line("grade", input, "done", students)
           ELSE IF grade.raised
           THEN /\ UNCHANGED <<pc, students>>
                /\ last' = Line("grade", input, "not a number", students)
           ELSE IF MIN_GRADE <= grade.val /\ grade.val <= MAX_GRADE
           THEN /\ UNCHANGED pc
                /\ students' = [students EXCEPT ![pc.student].grades =
                                   Append(@, grade.val)]
                /\ last' = Line("grade", input, "added", students)
           ELSE /\ UNCHANGED <<pc, students>>
                /\ last' = Line("grade", input, "out of range", students)

-----------------------------------------------------------------------------
(* Requests *)

Body(t, a, y, set) == [title |-> t, author |-> a, year |-> y, set |-> set]

\* bodies of POST /books/: title and author given, year given or left out
CreateBodies(T, A, Y) ==
    {Body(Some(t), Some(a), None, {"title", "author"}) : t \in T, a \in A}
    \cup {Body(Some(t[1]), Some(t[2]), Some(t[3]), {"title", "author", "year"}) :
            t \in T \X A \X Y}

\* the values one field of a PUT body can take: left out, null, or a value
FieldChoices(V) ==
    {[given |-> FALSE, val |-> None], [given |-> TRUE, val |-> None]}
    \cup {[given |-> TRUE, val |-> Some(v)] : v \in V}

UpdateBodies(T, A, Y) ==
    {Body(c[1].val, c[2].val, c[3].val,
          {f \in {"title", "author", "year"} :
              \/ f = "title" /\ c[1].given
              \/ f = "author" /\ c[2].given
              \/ f = "year" /\ c[3].given}) :
        c \in FieldChoices(T) \X FieldChoices(A) \X FieldChoices(Y)}

BookIds == 1..MaxCreates

Init ==
    /\ books = {}
    /\ assigned = << >>
    /\ currentYear = StartYear
    /\ pending = [c \in Callers |-> None]
    /\ last = Idle
    /\ seen = None
    /\ stdout = << >>
    /\ students = << >>
    /\ pc = AtMenu

(* Spec: the four endpoints, one request at a time. *)

Titles == {<<"a">>, <<" ", "b", " ">>}
Authors == {<<"x">>, <<" ", "y">>, <<US>>}
Years == {MinYear - 1, MinYear}

CreateInputs == CreateBodies(Titles, Authors, Years)
UpdateInputs == UpdateBodies(Titles, Authors, Years)

Next ==
    \/ \E body \in CreateInputs : CreateBook(body)
    \/ \E id \in BookIds : GetBook(id)
    \/ \E id \in BookIds, body \in UpdateInputs : UpdateBook(id, body)
    \/ \E id \in BookIds : DeleteBook(id)
    \/ Deliver

Spec == Init /\ [][Next]_vars

(* SpecText: the same endpoints on titles and authors at the limits of the *)
(* text rules: empty, blank, padded, 255 and 256 characters.               *)

LongLen == MaxStrLen + 1

TextTitles ==
    {<< >>, <<" ", "b", " ">>, <<US, "b">>,
     <<" ">> \o Rep("a", MaxStrLen) \o <<" ">>, Rep("a", LongLen)}
TextAuthors == {<<" ">>, <<"y", US>>}

TextCreateInputs == CreateBodies(TextTitles, TextAuthors, {})
TextUpdateInputs == UpdateBodies(TextTitles, TextAuthors, {})

NextText ==
    \/ \E body \in TextCreateInputs : CreateBook(body)
    \/ \E id \in BookIds, body \in TextUpdateInputs : UpdateBook(id, body)
    \/ \E id \in BookIds : DeleteBook(id)
    \/ Deliver

SpecText == Init /\ [][NextText]_vars

(* SpecClock: the same endpoints on years around both limits, in a process *)
(* that keeps running into the next calendar year.                         *)

ClockYears ==
    {MinYear - 1, MinYear}
    \cup (StartYear + YearSlack)..(StartYear + MaxTicks + YearSlack + 1)

ClockCreateInputs == CreateBodies({<<"a">>}, {<<"x">>}, ClockYears)
ClockUpdateInputs == UpdateBodies({}, {}, ClockYears)

NextClock ==
    \/ \E body \in ClockCreateInputs : CreateBook(body)
    \/ \E id \in BookIds, body \in ClockUpdateInputs : UpdateBook(id, body)
    \/ \E id \in BookIds : DeleteBook(id)
    \/ Deliver
    \/ Tick

SpecClock == Init /\ [][NextClock]_vars

(* SpecConc: POST /books/ from several callers, each in its own session:   *)
(* the requests are validated in any order and commit in any order.        *)

ConcCreateInputs == CreateBodies({<<"a">>, <<" ">>}, {<<"x">>}, {})
ConcUpdateInputs == UpdateBodies({<<" ", "b", " ">>}, {}, {MinYear})

NextConc ==
    \/ \E c \in Callers, body \in ConcCreateInputs : BeginCreate(c, body)
    \/ \E c \in Callers : CommitCreate(c)
    \/ \E id \in BookIds, body \in ConcUpdateInputs : UpdateBook(id, body)
    \/ \E id \in BookIds : DeleteBook(id)
    \/ Deliver

SpecConc == Init /\ [][NextConc]_vars

(* SpecList: the list of books, through crud.get_books and through         *)
(* GET /books/, while books are created and deleted.                       *)

ListCreateInputs == CreateBodies({<<"a">>}, {<<"x">>}, {MinYear})
ReadCreateInputs == CreateBodies({<<"a">>}, {<<"x">>}, {})

NextList ==
    \/ \E body \in ListCreateInputs : CreateBook(body)
    \/ \E id \in BookIds : DeleteBook(id)
    \/ \E skip \in 0..MaxSkip, limit \in 0..MaxLimit : GetBooks(skip, limit)
    \/ \E page \in 0..MaxPage,
          page_size \in 0..MaxPageSize \cup {PageSizeLimit, PageSizeLimit + 1} :
           ListBooks(page, page_size)
    \/ Deliver

SpecList == Init /\ [][NextList]_vars

(* SpecCreate: POST /books/ on inputs on both sides of every rule of the   *)
(* title, the author and the year, with the list read in between.          *)

RuleTitles == {<<US>>, <<"a">>, Rep("a", LongLen)}
RuleAuthors == {<<" ">>, <<"x">>, <<US, " ">>}
RuleYears == {MinYear - 1, MinYear, StartYear + YearSlack + 1}

RuleCreateInputs == CreateBodies(RuleTitles, RuleAuthors, RuleYears)

NextCreate ==
    \/ \E body \in RuleCreateInputs : CreateBook(body)
    \/ \E id \in BookIds : DeleteBook(id)
    \/ \E skip \in {0}, limit \in {MaxLimit} : GetBooks(skip, limit)
    \/ Deliver

SpecCreate == Init /\ [][NextCreate]_vars

(* SpecAtomic: GET /books/ from callers with sessions of their own, while  *)
(* other requests create and delete books.                                 *)

NextAtomic ==
    \/ \E body \in ReadCreateInputs : CreateBook(body)
    \/ \E id \in BookIds : DeleteBook(id)
    \/ \E c \in Callers, page \in {1}, page_size \in 1..MaxPageSize :
          BeginList(c, page, page_size)
    \/ \E c \in Callers : FinishList(c)
    \/ Deliver

SpecAtomic == Init /\ [][NextAtomic]_vars

(* SpecSearch: GET /books/search/ on titles, authors and years that the    *)
(* criteria tell apart, with every criterion left out, empty or given.     *)

SearchCreateInputs ==
    {Body(Some(<<"a">>), Some(<<"x">>), None, {"title", "author"}),
     Body(Some(<<"A", "_">>), Some(<<"y">>), Some(MinYear), {"title", "author", "year"}),
     Body(Some(<<"b">>), Some(<<"X">>), Some(MinYear + 1), {"title", "author", "year"})}

SearchPages == {1, 2}
SearchPageSizes == {1, MaxPageSize}

SearchQuery(title, author, year, year_from, year_to, page, page_size) ==
    [title |-> title, author |-> author, year |-> year, year_from |-> year_from,
     year_to |-> year_to, page |-> page, page_size |-> page_size]

SearchQueries ==
    {SearchQuery(title, author, year, year_from, year_to, page, page_size) :
        title \in {None, Some(<< >>), Some(<<"A">>), Some(<<"_">>)},
        author \in {None, Some(<<"x">>)},
        year \in {None, Some(MinYear)},
        year_from \in {None, Some(MinYear - 1), Some(MinYear + 1)},
        year_to \in {None, Some(-1), Some(0), Some(MinYear)},
        page \in SearchPages,
        page_size \in SearchPageSizes}

NextSearch ==
    \/ \E body \in SearchCreateInputs : CreateBook(body)
    \/ \E q \in SearchQueries : SearchBooks(q)
    \/ Deliver

SpecSearch == Init /\ [][NextSearch]_vars

(* SpecPages: the two total_pages computations on every total up to        *)
(* MaxTotal and every page size the endpoints accept.                      *)

NextPages ==
    \/ \E total \in 0..MaxTotal, page_size \in 1..PageSizeLimit :
          TotalPages(total, page_size)
    \/ Deliver

SpecPages == Init /\ [][NextPages]_vars

(* SpecRead: the three reading endpoints between creates, updates and      *)
(* deletes.                                                                *)

ReadUpdateInputs == UpdateBodies({<<"b">>}, {}, {})

ReadQueries ==
    {SearchQuery(t, None, None, None, y, 1, p) :
        t \in {None, Some(<<"b">>)}, y \in {None, Some(MinYear)}, p \in {MaxPageSize}}

NextRead ==
    \/ \E body \in ReadCreateInputs : CreateBook(body)
    \/ \E id \in BookIds, body \in ReadUpdateInputs : UpdateBook(id, body)
    \/ \E id \in BookIds : DeleteBook(id)
    \/ \E id \in BookIds : GetBook(id)
    \/ \E page \in SearchPages, page_size \in SearchPageSizes : ListBooks(page, page_size)
    \/ \E q \in ReadQueries : SearchBooks(q)
    \/ Deliver

SpecRead == Init /\ [][NextRead]_vars

(* SpecPrinter: print_all_messages, and _format_colored_text on texts and  *)
(* configurations with each optional part set, unset or empty.             *)

FormatConfigs ==
    {ColorConfig(f, b, s) :
        f \in {Fore_RED, Fore_GREEN},
        b \in {None, Some(""), Some(Back_YELLOW)},
        s \in {None, Some(""), Some(Style_BRIGHT)}}

NextPrinter ==
    \/ PrintMessage
    \/ \E text \in {"", "Test Message"}, config \in FormatConfigs : FormatText(text, config)
    \/ Deliver

SpecPrinter == Init /\ [][NextPrinter]_vars

(* SpecPatch: PUT /books/{book_id} from callers with sessions of their     *)
(* own, on one book: the rows are loaded in any order and the updates      *)
(* commit in any order.                                                    *)

NextPatch ==
    \/ \E body \in ReadCreateInputs : CreateBook(body)
    \/ \E c \in Callers, id \in {1},
          body \in {Body(Some(<<"b">>), None, None, {"title"}),
                    Body(Some(<<"a">>), Some(<<"z">>), None, {"title", "author"}),
                    Body(Some(<<"b">>), Some(<<"y">>), None, {"title", "author"})} :
           BeginUpdate(c, id, body)
    \/ \E c \in Callers : FinishUpdate(c)
    \/ Deliver

SpecPatch == Init /\ [][NextPatch]_vars

(* SpecWalk: the list and searches read page by page, on tables with gaps  *)
(* in the ids.                                                             *)

NextWalk ==
    \/ \E body \in SearchCreateInputs : CreateBook(body)
    \/ \E id \in BookIds : DeleteBook(id)
    \/ \E page_size \in 1..MaxPageSize : ListNextPage(page_size)
    \/ \E title \in {None, Some(<<"A">>)}, year_to \in {None, Some(MinYear)},
          page_size \in 1..MaxPageSize :
           SearchNextPage(SearchQuery(title, None, None, None, year_to, 1, page_size))
    \/ Deliver

SpecWalk == Init /\ [][NextWalk]_vars

(* SpecAnalyzer: the grade analyzer on every menu choice, on names that    *)
(* differ in case and padding, and on grades at and beyond both limits.    *)

NameInputs ==
    {<< >>, <<" ">>, <<"a">>, <<" ", "A", " ">>, <<"b">>}

NextAnalyzer ==
    \/ \E input \in {<<"1">>, <<"2">>, <<"3">>, <<"4">>, <<"5">>, <<" ", "5", " ">>,
                      <<"6">>, <<"0">>, << >>, <<"d", "o", "n", "e">>} :
           EnterChoice(input)
    \/ \E input \in NameInputs : EnterNewName(input)
    \/ \E input \in NameInputs : EnterStudentName(input)
    \/ \E input \in {<<"0">>, <<"1", "0", "0">>, <<"1", "0", "1">>, <<"-", "1">>,
                      <<"a">>, << >>, <<"5", ".", "5">>, <<"d", "o", "n", "e">>,
                      <<" ", "D", "O", "N", "E">>} :
           EnterGrade(input)

SpecAnalyzer == Init /\ [][NextAnalyzer]_vars

-----------------------------------------------------------------------------
(* Properties *)

Fields == {"title", "author", "year"}

Supplied(body, f) == f \in body.set /\ ~IsNone(body[f])

UpdateServed == last.op = "update" /\ last.id \in Ids(last.pre)

\* C1. Partial update: after a successful update(id, patch), each field the
\* patch leaves out has its pre-call value, each field supplied with a value
\* has that value (title and author trimmed), the response is the stored row
\* and every other row is unchanged.
C1_PartialUpdate ==
    (last.op = "update" /\ last.status = HTTP_200) =>
        /\ last.id \in Ids(last.pre)
        /\ last.id \in Ids(books)
        /\ LET old == RowOf(last.pre, last.id)
               new == RowOf(books, last.id)
           IN  /\ \A f \in Fields \ last.body.set : new[f] = old[f]
               /\ Supplied(last.body, "title") => new.title = strip(last.body.title[1])
               /\ Supplied(last.body, "author") => new.author = strip(last.body.author[1])
               /\ Supplied(last.body, "year") => new.year = last.body.year
               /\ books \ {new} = last.pre \ {old}
               /\ last.ret = Some(BookResponse(new))

\* a patch of author alone has changed the author of a book that has a year,
\* with another book in the table
C1_Witness ==
    /\ last.op = "update"
    /\ last.status = HTTP_200
    /\ last.body.set = {"author"}
    /\ Cardinality(books) = 2
    /\ RowOf(books, last.id).author # RowOf(last.pre, last.id).author
    /\ ~IsNone(RowOf(books, last.id).year)

\* C2. A patch that supplies year as null (and no other value) clears the
\* year: the stored and the returned book have no year afterwards.
C2_YearCleared ==
    (/\ UpdateServed
     /\ BookUpdate(last.body).ok
     /\ "year" \in last.body.set
     /\ IsNone(last.body.year)
     /\ ~Supplied(last.body, "title")
     /\ ~Supplied(last.body, "author")) =>
        /\ last.status = HTTP_200
        /\ IsNone(RowOf(books, last.id).year)
        /\ IsNone(last.ret[1].year)

\* C3. A failed update of an existing book writes nothing: the table is the
\* table before the call.
C3_NoPartialWrite ==
    (UpdateServed /\ last.status \in {HTTP_400, HTTP_422}) => books = last.pre

\* the update set a new, valid title and was then refused on the author
C3_Witness ==
    /\ UpdateServed
    /\ last.status = HTTP_400
    /\ last.crud = "raise"
    /\ Supplied(last.body, "title")
    /\ ~validate_title(last.body.title[1]).raised
    /\ strip(last.body.title[1]) # RowOf(last.pre, last.id).title
    /\ Supplied(last.body, "author")
    /\ validate_author(last.body.author[1]).raised

\* C4. An update of an id without a row, with a patch the schema accepts,
\* returns None from update_book and is answered 404; no row is created or
\* changed.
C4_UpdateMissingNotFound ==
    (/\ last.op = "update"
     /\ last.id \notin Ids(last.pre)
     /\ BookUpdate(last.body).ok) =>
        /\ last.crud = "none"
        /\ last.status = HTTP_404
        /\ books = last.pre

\* C5. No id is assigned twice, whatever was deleted in between.
C5_IdsNeverReused ==
    \A i, j \in 1..Len(assigned) : i # j => assigned[i] # assigned[j]

\* C6. No two rows share an id; of two rows the one inserted later has the
\* larger id; an update leaves the ids of the table, and the id of the row
\* it patches, as they were.
C6_IdUniqueOrdered ==
    /\ \A r1, r2 \in books : r1.id = r2.id => r1 = r2
    /\ \A r1, r2 \in books : r1.seq < r2.seq => r1.id < r2.id
    /\ UpdateServed =>
          /\ \A r1 \in last.pre, r2 \in books : r1.seq = r2.seq => r1.id = r2.id
          /\ Ids(books) = Ids(last.pre)
          /\ last.status = HTTP_200 => last.ret[1].id = last.id

\* a create has committed after another caller's create, which arrived
\* later, had committed
C6_Witness ==
    /\ last.op = "create"
    /\ last.status = HTTP_201
    /\ last.began + 1 < Len(assigned)
    /\ Cardinality(books) = 2

\* C7. Round trip: get(id) of a book not written since its create returns
\* the title and author given to create, trimmed, and the year given (none
\* when none was given).
C7_RoundTrip ==
    (/\ last.op = "get"
     /\ last.id \in Ids(last.pre)
     /\ ~IsNone(RowOf(last.pre, last.id).origin)) =>
        LET given == RowOf(last.pre, last.id).origin[1]
        IN  /\ last.status = HTTP_200
            /\ last.ret = Some([id |-> last.id,
                                title |-> strip(given.title[1]),
                                author |-> strip(given.author[1]),
                                year |-> given.year])

\* a get has returned a book created with a padded title and a year
C7_Witness ==
    /\ last.op = "get"
    /\ last.status = HTTP_200
    /\ ~IsNone(RowOf(last.pre, last.id).origin)
    /\ LET given == RowOf(last.pre, last.id).origin[1]
       IN  /\ given.title[1] # strip(given.title[1])
           /\ ~IsNone(given.year)

\* C8. delete(id) of an existing id returns True and removes that row only;
\* get(id) of an id without a row returns None (404); delete(id) of an id
\* without a row returns False and changes nothing.
C8_DeleteProtocol ==
    /\ last.op = "delete" =>
          IF last.id \in Ids(last.pre)
          THEN /\ last.crud = "true"
               /\ books = last.pre \ {RowOf(last.pre, last.id)}
               /\ last.id \notin Ids(books)
          ELSE /\ last.crud = "false"
               /\ books = last.pre
    /\ (last.op = "get" /\ last.id \notin Ids(last.pre)) =>
          /\ last.crud = "none"
          /\ last.status = HTTP_404
          /\ books = last.pre

\* a second delete of an id that was assigned and deleted has returned
\* False, with another book in the table
C8_Witness ==
    /\ last.op = "delete"
    /\ last.crud = "false"
    /\ \E i \in 1..Len(assigned) : assigned[i] = last.id
    /\ books # {}

\* C9. Every row has a title and an author that equal their trimmed form,
\* are not empty and are at most 255 characters long.
C9_TextInvariant ==
    \A r \in books :
        /\ strip(r.title) = r.title
        /\ strip(r.author) = r.author
        /\ Len(r.title) \in MinStrLen..MaxStrLen
        /\ Len(r.author) \in MinStrLen..MaxStrLen

\* an update has stored a title that the request schema passed on with a
\* leading whitespace character, and a title of 255 characters is stored
C9_Witness ==
    /\ last.op = "update"
    /\ last.status = HTTP_200
    /\ Supplied(last.body, "title")
    /\ BookUpdate(last.body).title[1] # strip(last.body.title[1])
    /\ \E r \in books : Len(r.title) = MaxStrLen

\* C10. A create, or an update of an existing book, that supplies year y
\* (with a valid title and author) is accepted exactly when
\* 1000 <= y <= currentYear + 2, currentYear being the year of the call.
C10_YearBoundAtCall ==
    (/\ last.op \in {"create", "update"}
     /\ last.op = "update" => last.id \in Ids(last.pre)
     /\ Supplied(last.body, "year")) =>
        (last.status \in {HTTP_200, HTTP_201}
            <=> (MinYear <= last.body.year[1]
                 /\ last.body.year[1] <= last.now + YearSlack))

\* the number of rows of db that ORDER BY id puts before r
Rank(db, r) == Cardinality({q \in db : q.id < r.id})

\* the ids of a sequence of rows are strictly ascending
Ascending(s) == \A i, j \in DOMAIN s : i < j => s[i].id < s[j].id

\* C12: for non-negative skip and limit, crud.get_books returns the rows of
\* the table in ascending id order with the first skip rows dropped and at
\* most limit rows kept, and total is the number of all rows whatever the
\* window; limit = 0 gives no items and the true total.
C12_ListWindow ==
    last.op = "get_books" =>
        LET items == last.ret[1].books
            skip == last.body.skip
            limit == last.body.limit
        IN  /\ last.ret[1].total = Cardinality(last.pre)
            /\ Ascending(items)
            /\ Range(items) = {r \in last.pre : /\ Rank(last.pre, r) >= skip
                                                /\ Rank(last.pre, r) < skip + limit}
            /\ limit = 0 => items = << >>

C12_Witness ==
    /\ last.op = "get_books"
    /\ last.body.skip >= 1
    /\ last.body.limit >= 1
    /\ Len(last.ret[1].books) >= 1
    /\ last.ret[1].total > Len(last.ret[1].books)

\* s without its leading and trailing whitespace
Trimmed(s) == StripWith(s, PyWhitespace)

\* the fields of a POST body that break a rule: a title or author that is
\* empty or longer than 255 characters after trimming, a year below 1000 or
\* above the current year plus two
Offending(body, now) ==
    {f \in {"title", "author"} :
        \/ Len(Trimmed(body[f][1])) < MinStrLen
        \/ Len(Trimmed(body[f][1])) > MaxStrLen}
    \cup {f \in {"year"} :
            /\ ~IsNone(body.year)
            /\ body.year[1] < MinYear \/ body.year[1] > now + YearSlack}

\* C11: a create whose title or author is empty or longer than 255
\* characters after trimming, or whose year is out of range, fails with a
\* validation error that names every offending field; it assigns no id and
\* persists no row, so the list's total and contents are what they were.
C11_CreateRejectsBadInput ==
    (last.op = "create" /\ Offending(last.body, last.now) # {}) =>
        /\ last.status \in {HTTP_422, HTTP_400}
        /\ Offending(last.body, last.now)
              \subseteq Detail(last.op, last.body, last.status, last.now)
        /\ Len(assigned) = last.began
        /\ books = last.pre
        /\ get_books(books, 0, Cardinality(books))
               = get_books(last.pre, 0, Cardinality(last.pre))

C11_Witness ==
    /\ last.op = "create"
    /\ Len(Trimmed(last.body.title[1])) > MaxStrLen
    /\ "title" \in Detail(last.op, last.body, last.status, last.now)
    /\ last.pre # {}
    /\ books = last.pre

\* C13: the total and the items of one list call describe the same state of
\* the table, also when a create or delete of another caller commits during
\* the call: when the window covers everything (first page, page_size at
\* least the total), the number of items is the total.
C13_AtomicList ==
    (/\ last.op = "list"
     /\ last.status = HTTP_200
     /\ last.body.page = 1
     /\ last.body.page_size >= last.ret[1].total) =>
        Len(last.ret[1].books) = last.ret[1].total

\* sub occurs in s as a run of consecutive characters
Contains(s, sub) ==
    \E i \in 0..(Len(s) - Len(sub)) : SubSeq(s, i + 1, i + Len(sub)) = sub

\* the ids of the rows of a response
ItemIds(resp) == {resp.books[i].id : i \in DOMAIN resp.books}

\* a search served with exactly the criteria in given, on a page that holds
\* every row of the table
SearchedBy(given) ==
    /\ last.op = "search"
    /\ last.status = HTTP_200
    /\ last.body.page = 1
    /\ last.body.page_size >= Cardinality(last.pre)
    /\ \A f \in {"title", "author", "year", "year_from", "year_to"} :
          f \in given <=> ~IsNone(last.body[f])

\* C14: a search by title alone returns exactly the books whose title
\* contains the criterion as a substring, letter case ignored, whatever
\* characters the criterion is made of, "%" and "_" included.
C14_TitleSubstring ==
    (SearchedBy({"title"}) /\ last.body.title[1] # << >>) =>
        ItemIds(last.ret[1])
            = {r.id : r \in {b \in last.pre :
                               Contains(lower(b.title), lower(last.body.title[1]))}}

\* the rows whose year lies in the range that the bounds of q give; a row
\* without a year lies in no range
InYearRange(db, q) ==
    {b \in db : /\ ~IsNone(b.year)
                /\ IsNone(q.year_from) \/ b.year[1] >= q.year_from[1]
                /\ IsNone(q.year_to) \/ b.year[1] <= q.year_to[1]}

\* C15: a search by year_from, by year_to or by both returns exactly the
\* books whose year is at least year_from and at most year_to, for every
\* accepted bound (year_to may be 0 or negative), and never a book without
\* a year.
C15_YearRange ==
    (\/ SearchedBy({"year_from"})
     \/ SearchedBy({"year_to"})
     \/ SearchedBy({"year_from", "year_to"})) =>
        ItemIds(last.ret[1]) = {r.id : r \in InYearRange(last.pre, last.body)}

\* the kinds of criterion of a search and the parameters that make up each
Criteria ==
    {{"title"}, {"author"}, {"year"}, {"year_from", "year_to"}}

\* the query q with every criterion but those of kind k left out
Only(q, k) ==
    [f \in DOMAIN q |->
        IF f \in {"page", "page_size"} \/ f \in k THEN q[f] ELSE None]

\* the kinds of criterion that q supplies
SuppliedCriteria(q) == {k \in Criteria : \E f \in k : ~IsNone(q[f])}

\* a search served on a page that holds every row of the table
SearchedAll ==
    /\ last.op = "search"
    /\ last.status = HTTP_200
    /\ last.body.page = 1
    /\ last.body.page_size >= Cardinality(last.pre)

\* the exact year of q is outside the range its bounds give
YearOutsideRange(q) ==
    /\ ~IsNone(q.year)
    /\ \/ ~IsNone(q.year_from) /\ q.year[1] < q.year_from[1]
       \/ ~IsNone(q.year_to) /\ q.year[1] > q.year_to[1]

\* the books a search returns are those that each supplied criterion,
\* searched for alone, returns; with no criterion they are all books
ComposedByIntersection ==
    SearchedAll =>
        /\ ItemIds(last.ret[1])
             = {r.id : r \in {b \in last.pre :
                   \A k \in SuppliedCriteria(last.body) :
                      b \in Filtered(last.pre, filters(Only(last.body, k)))}}
        /\ SuppliedCriteria(last.body) = {} => ItemIds(last.ret[1]) = Ids(last.pre)

\* C16: the books a search returns are the intersection of the sets that
\* each supplied criterion (title, author, exact year, year range) matches
\* alone; a criterion left out removes nothing and no criterion matches
\* every book; an exact year outside a supplied range matches nothing.
C16_Conjunction ==
    /\ ComposedByIntersection
    /\ (SearchedAll /\ YearOutsideRange(last.body)) => ItemIds(last.ret[1]) = {}

\* C17: for one table and one set of criteria every page and page_size give
\* the same total, the number of books that match, and the items are the
\* window starting at (page - 1) * page_size of the matching books in
\* ascending id order.
C17_TotalIndependentOfPage ==
    (last.op = "search" /\ last.status = HTTP_200) =>
        LET q == last.body
            resp == last.ret[1]
            matched == Filtered(last.pre, filters(q))
            skip == (q.page - 1) * q.page_size
        IN  /\ resp.total = Cardinality(matched)
            /\ \A p \in SearchPages, ps \in SearchPageSizes :
                  search_books(last.pre, [q EXCEPT !.page = p, !.page_size = ps]).total
                      = resp.total
            /\ Ascending(resp.books)
            /\ ItemIds(resp) = {r.id : r \in {b \in matched :
                                   /\ Rank(matched, b) >= skip
                                   /\ Rank(matched, b) < skip + q.page_size}}

C17_Witness ==
    /\ last.op = "search"
    /\ last.status = HTTP_200
    /\ filters(last.body) # {}
    /\ last.body.page = 2
    /\ Len(last.ret[1].books) = 1
    /\ last.ret[1].total = 2

\* C18: for every total >= 0 and page_size in 1..100, GET /books/ and
\* GET /books/search/ compute the same total_pages, the least number of
\* pages of page_size that hold total books: 0 for total = 0, 3 for total
\* = 25 and page_size = 10.
C18_PageCount ==
    last.op = "total_pages" =>
        LET total == last.body.total
            page_size == last.body.page_size
            n == last.ret[1].list
        IN  /\ last.ret[1].search = n
            /\ n * page_size >= total
            /\ (n - 1) * page_size < total
            /\ total = 0 => n = 0
            /\ (total = 25 /\ page_size = 10) => n = 3

C18_Witness ==
    /\ last.op = "total_pages"
    /\ last.body.total = 25
    /\ last.body.page_size = 10
    /\ last.ret[1].list = 3
    /\ last.ret[1].search = 3

\* a read has just been served: the table and the number of ids given out
\* are what they were before it
ReadLeavesStore ==
    last.op \in {"get", "list", "search"} =>
        /\ books = last.pre
        /\ Len(assigned) = last.began
        /\ NextId(books) = NextId(last.pre)

\* GET /books/ was served twice with the same page and page_size on the
\* same table: both responses are the same
ListRepeats ==
    (~IsNone(seen) /\ ~IsNone(seen[1].prev)) => seen[1].prev[1] = seen[1].ret

\* C19: get, list and search change no row and not the next id; the same
\* GET /books/ repeated with no create, update or delete in between returns
\* the same items in the same order with the same field values, and the
\* same total.
C19_ReadsRepeatable == ReadLeavesStore /\ ListRepeats

C19_Witness ==
    /\ last.op = "list"
    /\ last.status = HTTP_200
    /\ Len(last.ret[1].books) = 2
    /\ ~IsNone(seen)
    /\ seen[1].prev = Some(last.ret)

\* the pieces of the codes and the text of m in the order style,
\* background, foreground, text, unset parts left out
Expected(m) ==
    LET parts == <<IF IsNone(m.config.style) THEN "" ELSE m.config.style[1],
                   IF IsNone(m.config.background) THEN ""
                   ELSE m.config.background[1],
                   m.config.foreground,
                   m.text>>
        kept == {i \in 1..4 : parts[i] # ""}
    IN  [k \in 1..Cardinality(kept) |->
            parts[CHOOSE i \in kept : Cardinality({j \in kept : j < i}) = k - 1]]

\* C20: print_all_messages prints once per configured message, four times,
\* in the configured order; each printed string is the style if set, the
\* background if set, the foreground, and then the text of the message.
C20_PrintAllMessages ==
    /\ Len(stdout) <= 4
    /\ \A i \in DOMAIN stdout : stdout[i] = Expected(setup_messages[i])
    /\ Len(setup_messages) = 4
    /\ last.op = "format" => last.ret[1] = Expected(last.body)

C20_Witness ==
    /\ Len(stdout) = 4
    /\ stdout[1] = <<Back_YELLOW, Fore_RED, "Hello World!">>
    /\ stdout[3] = <<Style_BRIGHT, Fore_BLUE, "Hello World in Bright Blue!">>

\* the title, author and year of a row
Content(r) == [f \in {"title", "author", "year"} |-> r[f]]

\* the row r after the patch body is applied to it by an update that runs
\* alone
Patched(r, body, now) == ApplyUpdate(r, BookUpdate(body), now).obj

\* an update has just committed, one other update of the same row committed
\* while it ran, and both had loaded the row in the same state
TwoUpdatesRaced ==
    /\ last.op = "update"
    /\ last.status = HTTP_200
    /\ "during" \in DOMAIN last
    /\ Len(last.during) = 1
    /\ last.during[1].alone
    /\ last.during[1].loaded = last.loaded

\* C21: two updates of the same existing row that run concurrently and
\* both complete leave the row as the two patches applied one after the
\* other, in one order or the other, leave it.
C21_UpdatesSerialize ==
    TwoUpdatesRaced =>
        LET first == last.during[1].body
            second == last.body
            stored == Content(RowOf(books, last.id))
        IN  \/ stored = Content(Patched(Patched(last.loaded, first, last.now),
                                        second, last.now))
            \/ stored = Content(Patched(Patched(last.loaded, second, last.now),
                                        first, last.now))

\* the books that the pages read so far are pages of: every book for the
\* list, the matching books for a search
Paged ==
    IF last.op = "list_pages" THEN last.pre
    ELSE Filtered(last.pre, filters(last.body))

\* C22: with nothing written in between, page p of the list or of a search
\* starts (p - 1) * page_size books into the listed or matching books in
\* ascending id order; pages 1..total_pages hold each of these books once,
\* every page before total_pages holds page_size of them and every page
\* after total_pages is empty.
C22_PagesPartition ==
    last.op \in {"list_pages", "search_pages"} =>
        LET pages == last.ret[1]
            page_size == last.body.page_size
            total_pages == pages[1].total_pages
        IN  /\ \A p \in DOMAIN pages :
                  /\ pages[p].page = p
                  /\ pages[p].total_pages = total_pages
                  /\ p < total_pages => Len(pages[p].books) = page_size
                  /\ p > total_pages => pages[p].books = << >>
                  /\ \A j \in DOMAIN pages[p].books :
                        \E r \in Paged :
                           /\ Rank(Paged, r) = (p - 1) * page_size + (j - 1)
                           /\ pages[p].books[j] = BookResponse(r)
            /\ \A r \in Paged :
                  LET p == Rank(Paged, r) \div page_size + 1
                  IN  /\ p <= total_pages
                      /\ p \in DOMAIN pages =>
                            \E j \in DOMAIN pages[p].books :
                               pages[p].books[j].id = r.id

C22_Witness ==
    /\ last.op = "list_pages"
    /\ last.body.page_size = 1
    /\ Len(last.ret[1]) = 3
    /\ Len(last.ret[1][2].books) = 1
    /\ last.ret[1][3].books = << >>
    /\ last.ret[1][1].total_pages = 2

\* C23: a patch that BookUpdate accepts, applied to an existing book, does
\* not fail in the validators of Book, and the values stored are the values
\* the schema validated.
C23_LayersAgree ==
    (/\ last.op = "update"
     /\ BookUpdate(last.body).ok
     /\ last.id \in Ids(last.pre)) =>
        /\ last.status = HTTP_200
        /\ last.id \in Ids(books)
        /\ \A f \in {"title", "author", "year"} :
              (f \in last.body.set /\ ~IsNone(last.body[f])) =>
                  RowOf(books, last.id)[f]
                      = (IF f = "year" THEN BookUpdate(last.body)[f]
                         ELSE BookUpdate(last.body)[f][1])

-----------------------------------------------------------------------------
(* lecture_3: the grade analyzer *)

Names(list) == [i \in DOMAIN list |-> list[i].name]

\* the same letters, letter case ignored
EqualIgnoringCase(a, b) == str_lower(a) = str_lower(b)

\* the line just read is one the program has to refuse: an empty or
\* duplicate name, an unknown student, a grade that is not a number or is
\* out of range, an unknown menu choice
InvalidInput ==
    LET text == strip(last.input)
    IN  \/ /\ last.op = "name"
           /\ \/ text = << >>
              \/ \E i \in DOMAIN last.pre : EqualIgnoringCase(last.pre[i].name, text)
        \/ /\ last.op = "student"
           /\ \A i \in DOMAIN last.pre : ~EqualIgnoringCase(last.pre[i].name, text)
        \/ /\ last.op = "grade"
           /\ str_lower(text) # EXIT_COMMAND
           /\ \/ int(str_lower(text)).raised
              \/ int(str_lower(text)).val \notin MIN_GRADE..MAX_GRADE
        \/ /\ last.op = "choice"
           /\ text \notin {<<"1">>, <<"2">>, <<"3">>, <<"4">>, <<"5">>}

AnalyzerLine == last.op \in {"choice", "name", "student", "grade"}

\* C24: whatever was chosen and typed, no two students have names that are
\* equal ignoring case, no student has an empty name, every recorded grade
\* is an integer in 0..100, an invalid input leaves the student list with
\* all its grade lists as it was, and the loop has ended only if the last
\* line read was the choice 5.
C24_AnalyzerInvariant ==
    /\ \A i, j \in DOMAIN students :
           i # j => ~EqualIgnoringCase(students[i].name, students[j].name)
    /\ \A i \in DOMAIN students : students[i].name # << >>
    /\ \A i \in DOMAIN students : \A k \in DOMAIN students[i].grades :
           students[i].grades[k] \in 0..100
    /\ AnalyzerLine /\ InvalidInput => students = last.pre
    /\ pc.at = "exited" =>
           AnalyzerLine /\ last.op = "choice" /\ strip(last.input) = <<"5">>

\* a name that differs from a student's only in case and padding was just
\* refused, while two students are listed and one has two grades
C24_Witness ==
    /\ AnalyzerLine
    /\ last.op = "name"
    /\ last.input = <<" ", "A", " ">>
    /\ <<"a">> \in Range(Names(students))
    /\ Len(students) = 2
    /\ \E i \in DOMAIN students : students[i].grades = <<100, 0>>

====
